---- MODULE Spec2Model ----
(***************************************************************************)
(* A model of import.py (decomp-permuter): the assembly scanner parse_asm, *)
(* the output directory allocator create_directory, the manifest search    *)
(* find_makefile_dir, the build-trace resolver find_build_command_line     *)
(* with fixup_build_command, the macro-preserving preprocessor             *)
(* preprocess_c_with_macros, and the run sequence of main.                 *)
(*                                                                         *)
(* Text is modelled at the granularity the code inspects it:               *)
(*   - an assembly line is the sequence of its whitespace-separated words; *)
(*   - a command token is the sequence of its '/'-separated components;    *)
(*   - a C source line is a sequence of lexical tokens, "sp" being one     *)
(*     blank.                                                              *)
(* Every component has its own specification; the variables of the other   *)
(* components stay at their idle values.                                   *)
(***************************************************************************)
EXTENDS Integers, Sequences, FiniteSets, TLC

VARIABLES
    \* parse_asm
    asm_file, asm_readable, asm_i, cur_section, func_name, asm_lines, asm_pc,
    \* create_directory (several concurrent invocations)
    fs_root, fs_dirs, fs_creator, cd_ctr, cd_pc, cd_ret,
    \* find_makefile_dir
    mk_cfile, mk_files, mk_filename, mk_dirname, mk_old, mk_pc,
    \* fixup_build_command
    fx_parts, fx_res, fx_asm, fx_pc,
    \* find_build_command_line
    fb_trace, fb_i, fb_output, fb_assembler, fb_close, fb_pc, fb_result,
    \* preprocess_c_with_macros
    pp_src, pp_source, expand_macros, late_defines, pp_lines, graph, pp_i,
    used_anywhere, used_by_nonmacro, queue, pp_popped, pp_out, pp_pc,
    \* main
    m_keep, m_preserve, m_fs, m_dirname, m_files, m_pc, m_exit, m_fail, m_log

asmVars == <<asm_file, asm_readable, asm_i, cur_section, func_name, asm_lines, asm_pc>>
dirVars == <<fs_root, fs_dirs, fs_creator, cd_ctr, cd_pc, cd_ret>>
mkVars == <<mk_cfile, mk_files, mk_filename, mk_dirname, mk_old, mk_pc>>
fxVars == <<fx_parts, fx_res, fx_asm, fx_pc>>
fbVars == <<fb_trace, fb_i, fb_output, fb_assembler, fb_close, fb_pc, fb_result>>
ppVars == <<pp_src, pp_source, expand_macros, late_defines, pp_lines, graph, pp_i,
            used_anywhere, used_by_nonmacro, queue, pp_popped, pp_out, pp_pc>>
mainVars == <<m_keep, m_preserve, m_fs, m_dirname, m_files, m_pc, m_exit, m_fail, m_log>>

vars == <<asmVars, dirVars, mkVars, fxVars, fbVars, ppVars, mainVars>>

\* Python's None.
None == "<None>"

\* All sequences over S of length at most n.
SeqsUpTo(S, n) == UNION {[1..k -> S] : k \in 0..n}

\* The elements of a sequence.
Range(s) == {s[k] : k \in 1..Len(s)}

(***************************************************************************)
(* parse_asm                                                               *)
(***************************************************************************)

\* Longest assembly listing explored.
MaxAsmLines == 3

\* The bare section directives parse_asm recognises.
SectionNames == {".text", ".rdata", ".rodata", ".late_rodata", ".bss", ".data"}

\* The characters of r"[a-zA-Z0-9_$]+".
NameChars ==
    {"a","b","c","d","e","f","g","h","i","j","k","l","m","n","o","p","q","r","s",
     "t","u","v","w","x","y","z","A","B","C","D","E","F","G","H","I","J","K","L",
     "M","N","O","P","Q","R","S","T","U","V","W","X","Y","Z","0","1","2","3","4",
     "5","6","7","8","9","_","$"}

\* The spelling of the identifiers that occur in the listings explored.
CharsOf(w) ==
    CASE w = "foo" -> <<"f","o","o">>
      [] w = "bar$1" -> <<"b","a","r","$","1">>
      [] w = "bad-name" -> <<"b","a","d","-","n","a","m","e">>
      [] OTHER -> <<"?">>

\* re.fullmatch(r"[a-zA-Z0-9_$]+", name)
FullMatchName(w) ==
    /\ Len(CharsOf(w)) > 0
    /\ \A k \in 1..Len(CharsOf(w)) : CharsOf(w)[k] \in NameChars

\* The lines a listing is drawn from, each the sequence of its words.
AsmLinePool ==
    { <<".section", ".text">>, <<".section", ".rodata">>, <<".section">>,
      <<".section", ".text,", "ax">>,
      <<".text">>, <<".data">>,
      <<"glabel", "foo">>, <<"glabel", "bar$1">>, <<"glabel", "bad-name">>,
      <<"nop">> }

\* line.strip().startswith(".section")
IsSectionLine(line) == Len(line) >= 1 /\ line[1] = ".section"

\* line.strip() in [".text", ".rdata", ...]
IsBareSectionLine(line) == Len(line) = 1 /\ line[1] \in SectionNames

\* line.strip().startswith("glabel ")
IsGlabelLine(line) == Len(line) >= 2 /\ line[1] = "glabel"

\* A mutant of SectionAfterLine: the '.section NAME' form is not followed.
SectionAfterLine_IgnoreSection(line, cur) ==
    IF IsBareSectionLine(line) THEN line[1] ELSE cur

\* The active section once `line` is read (a '.section' line has its operand).
SectionAfterLine(line, cur) ==
    IF IsSectionLine(line) THEN line[2]
    ELSE IF IsBareSectionLine(line) THEN line[1]
    ELSE cur

AsmInit ==
    /\ asm_readable \in BOOLEAN
    /\ asm_file \in (IF asm_readable THEN SeqsUpTo(AsmLinePool, MaxAsmLines) ELSE {<<>>})
    /\ asm_i = 1
    /\ cur_section = ".text"
    /\ func_name = None
    /\ asm_lines = <<>>
    /\ asm_pc = "open"

AsmIdle ==
    /\ asm_readable = TRUE
    /\ asm_file = <<>>
    /\ asm_i = 1
    /\ cur_section = ".text"
    /\ func_name = None
    /\ asm_lines = <<>>
    /\ asm_pc = "idle"

AsmOthers == <<dirVars, mkVars, fxVars, fbVars, ppVars, mainVars>>

\* open(asm_file): an OSError is reported and the run exits with status 1.
AsmOpen ==
    /\ asm_pc = "open"
    /\ asm_pc' = IF asm_readable THEN "loop" ELSE "exit1"
    /\ UNCHANGED <<asm_file, asm_readable, asm_i, cur_section, func_name, asm_lines>>
    /\ UNCHANGED AsmOthers

\* One iteration of 'for line in f'.
AsmReadLine ==
    /\ asm_pc = "loop"
    /\ asm_i <= Len(asm_file)
    /\ LET line == asm_file[asm_i] IN
       IF IsSectionLine(line) /\ Len(line) < 2
       THEN \* line.split()[1] raises IndexError, which nothing catches
            /\ asm_pc' = "crash"
            /\ UNCHANGED <<asm_i, cur_section, func_name, asm_lines>>
       ELSE LET sec == SectionAfterLine(line, cur_section) IN
            /\ cur_section' = sec
            /\ func_name' = IF sec = ".text" /\ func_name = None /\ IsGlabelLine(line)
                            THEN line[2] ELSE func_name
            /\ asm_lines' = IF sec = ".text" THEN Append(asm_lines, line) ELSE asm_lines
            /\ asm_i' = asm_i + 1
            /\ asm_pc' = "loop"
    /\ UNCHANGED <<asm_file, asm_readable>>
    /\ UNCHANGED AsmOthers

\* After the loop: the two checks of the captured name, then the return.
AsmFinish ==
    /\ asm_pc = "loop"
    /\ asm_i > Len(asm_file)
    /\ asm_pc' = IF func_name = None THEN "exit1"
                 ELSE IF ~FullMatchName(func_name) THEN "exit1"
                 ELSE "returned"
    /\ UNCHANGED <<asm_file, asm_readable, asm_i, cur_section, func_name, asm_lines>>
    /\ UNCHANGED AsmOthers

AsmNext == AsmOpen \/ AsmReadLine \/ AsmFinish


(***************************************************************************)
(* create_directory, run by several invocations against one nonmatchings/  *)
(***************************************************************************)

\* Concurrent invocations explored.
NumProcs == 2

\* Pre-existing directories are among name, name-2, ..., name-MaxPre.
MaxPre == 3

Procs == 1..NumProcs

\* The function name every invocation was given.
CdFuncName == "foo"

\* f"{func_name}-{ctr}" if ctr > 1 else func_name, under nonmatchings/
DirName(func, ctr) ==
    IF ctr > 1 THEN <<"nonmatchings", func, ctr>> ELSE <<"nonmatchings", func>>

DirInit ==
    /\ fs_root \in BOOLEAN
    /\ fs_dirs \in (IF fs_root THEN SUBSET {DirName(CdFuncName, k) : k \in 1..MaxPre} ELSE {{}})
    /\ fs_creator = {}
    /\ cd_ctr = [p \in Procs |-> 0]
    /\ cd_pc = [p \in Procs |-> "start"]
    /\ cd_ret = [p \in Procs |-> <<>>]

DirIdle ==
    /\ fs_root = FALSE
    /\ fs_dirs = {}
    /\ fs_creator = {}
    /\ cd_ctr = <<>>
    /\ cd_pc = <<>>
    /\ cd_ret = <<>>

DirOthers == <<asmVars, mkVars, fxVars, fbVars, ppVars, mainVars>>

\* os.makedirs("nonmatchings/", exist_ok=True); ctr = 0
CdMakedirs(p) ==
    /\ cd_pc[p] = "start"
    /\ fs_root' = TRUE
    /\ cd_ctr' = [cd_ctr EXCEPT ![p] = 0]
    /\ cd_pc' = [cd_pc EXCEPT ![p] = "loop"]
    /\ UNCHANGED <<fs_dirs, fs_creator, cd_ret>>
    /\ UNCHANGED DirOthers

\* A mutant of MkdirSucceeds: creation succeeds over an existing directory
\* (as os.makedirs(..., exist_ok=True) would).
MkdirSucceeds_ExistOk(d, dirs) == TRUE

\* os.mkdir(dirname) raises FileExistsError exactly when the name exists.
MkdirSucceeds(d, dirs) == d \notin dirs

\* One iteration of 'while True': ctr += 1, the name, and the mkdir attempt.
CdTryMkdir(p) ==
    /\ cd_pc[p] = "loop"
    /\ LET ctr == cd_ctr[p] + 1
           d == DirName(CdFuncName, ctr)
       IN /\ cd_ctr' = [cd_ctr EXCEPT ![p] = ctr]
          /\ IF MkdirSucceeds(d, fs_dirs)
             THEN /\ fs_dirs' = fs_dirs \cup {d}
                  /\ fs_creator' = fs_creator \cup {<<d, p>>}
                  /\ cd_ret' = [cd_ret EXCEPT ![p] = d]
                  /\ cd_pc' = [cd_pc EXCEPT ![p] = "returned"]
             ELSE UNCHANGED <<fs_dirs, fs_creator, cd_ret, cd_pc>>
    /\ UNCHANGED fs_root
    /\ UNCHANGED DirOthers

CdStep(p) == CdMakedirs(p) \/ CdTryMkdir(p)

DirNext == \E p \in Procs : CdStep(p)

(***************************************************************************)
(* find_makefile_dir, as find_build_command_line calls it                  *)
(***************************************************************************)

\* Deepest source directory explored (the root is depth 0).
MaxDepth == 3

\* The directory names of the path explored, outermost first.
DirChain == <<"d1", "d2", "d3", "d4", "d5">>

\* os.path.dirname of an absolute path, a path being its components.
Dirname(path) == IF Len(path) = 0 THEN path ELSE SubSeq(path, 1, Len(path) - 1)

\* len() of the path's string: "/" for the root, "/d1/d2" otherwise.
StrLen(path) == IF Len(path) = 0 THEN 1 ELSE 3 * Len(path)

\* os.path.isfile(os.path.join(dirname, fname)) for either spelling.
HoldsMakefile(dir, files) ==
    \E fname \in {"makefile", "Makefile"} : Append(dir, fname) \in files

MkInit ==
    /\ \E d \in 0..MaxDepth :
         /\ mk_cfile = Append(SubSeq(DirChain, 1, d), "x.c")
         /\ mk_files \in SUBSET {Append(SubSeq(DirChain, 1, k), f) :
                                   k \in 0..d, f \in {"makefile", "Makefile"}}
    /\ mk_filename = <<>>
    /\ mk_dirname = <<>>
    /\ mk_old = <<None>>
    /\ mk_pc = "call"

MkIdle ==
    /\ mk_cfile = <<>>
    /\ mk_files = {}
    /\ mk_filename = <<>>
    /\ mk_dirname = <<>>
    /\ mk_old = <<None>>
    /\ mk_pc = "idle"

MkOthers == <<asmVars, dirVars, fxVars, fbVars, ppVars, mainVars>>

\* find_build_command_line passes the source file's directory, and
\* find_makefile_dir takes the dirname of what it is given.
MkEnter ==
    /\ mk_pc = "call"
    /\ mk_filename' = Dirname(mk_cfile)
    /\ mk_dirname' = Dirname(Dirname(mk_cfile))
    /\ mk_old' = <<None>>
    /\ mk_pc' = "loop"
    /\ UNCHANGED <<mk_cfile, mk_files>>
    /\ UNCHANGED MkOthers

\* while dirname and (not old_dirname or len(dirname) < len(old_dirname))
MkLoopCond ==
    /\ StrLen(mk_dirname) > 0
    /\ (mk_old = <<None>> \/ StrLen(mk_dirname) < StrLen(mk_old))

\* One iteration: return the directory if it holds a makefile, else ascend.
MkIterate ==
    /\ mk_pc = "loop"
    /\ MkLoopCond
    /\ IF HoldsMakefile(mk_dirname, mk_files)
       THEN /\ mk_pc' = "returned"
            /\ UNCHANGED <<mk_dirname, mk_old>>
       ELSE /\ mk_old' = mk_dirname
            /\ mk_dirname' = Dirname(mk_dirname)
            /\ mk_pc' = "loop"
    /\ UNCHANGED <<mk_cfile, mk_files, mk_filename>>
    /\ UNCHANGED MkOthers

\* The loop ended without a makefile: "Missing makefile", sys.exit(1).
MkGiveUp ==
    /\ mk_pc = "loop"
    /\ ~MkLoopCond
    /\ mk_pc' = "exit1"
    /\ UNCHANGED <<mk_cfile, mk_files, mk_filename, mk_dirname, mk_old>>
    /\ UNCHANGED MkOthers

MkNext == MkEnter \/ MkIterate \/ MkGiveUp


(***************************************************************************)
(* Command tokens. A token is the sequence of its '/'-separated            *)
(* components: "src//a.c" is <<"src", "", "a.c">>.                        *)
(***************************************************************************)

T_cc == <<"cc">>
T_c == <<"-c">>
T_o == <<"-o">>
T_MF == <<"-MF">>
T_dd == <<"--">>
T_syn == <<"-fsyntax-only">>
T_py == <<"python3">>
T_as == <<"as">>
T_march == <<"-march=vr4300">>
T_wrap == <<"tools", "asm-processor", "build.py">>
T_src == <<"src", "a.c">>
T_obj == <<"build", "a.o">>
T_dep == <<"build", "a.d">>

\* The wrapper names fixup_build_command looks for inside a token.
WrapperNames == {"asm_processor", "asm-processor", "preprocess.py"}

\* any(cmd in arg for cmd in [...]): a component of the token is a wrapper name.
IsWrapperTok(arg) == \E k \in 1..Len(arg) : arg[k] \in WrapperNames

\* DEFAULT_AS_CMDLINE
DefaultAsCmdline == << <<"mips-linux-gnu-as">>, <<"-march=vr4300">>, <<"-mabi=32">> >>

(***************************************************************************)
(* fixup_build_command                                                     *)
(***************************************************************************)

\* Longest token list drawn from the whole alphabet.
MaxParts == 5

\* Longest segment of a token list drawn in the wrapped shape.
MaxSeg == 2

\* The first loop: drop "-MF"/"-o" with the token after it, and ignore_part.
RECURSIVE StripLoop(_, _, _, _, _)
StripLoop(parts, k, skip_count, res, ignore_part) ==
    IF k > Len(parts) THEN res
    ELSE IF skip_count > 0 THEN StripLoop(parts, k + 1, skip_count - 1, res, ignore_part)
    ELSE IF parts[k] \in {T_MF, T_o} THEN StripLoop(parts, k + 1, 1, res, ignore_part)
    ELSE IF parts[k] = ignore_part THEN StripLoop(parts, k + 1, 0, res, ignore_part)
    ELSE StripLoop(parts, k + 1, 0, Append(res, parts[k]), ignore_part)

StripParts(parts, ignore_part) == StripLoop(parts, 1, 0, <<>>, ignore_part)

\* list.index(x, start) with 1-based positions; 0 stands for ValueError.
IndexFrom(s, x, start) ==
    LET hits == {k \in start..Len(s) : s[k] = x}
    IN IF hits = {} THEN 0 ELSE CHOOSE k \in hits : \A j \in hits : k <= j

\* min(i for i, arg in enumerate(res) if <wrapper in arg>); 0 for ValueError.
FirstWrapper(s) ==
    LET hits == {k \in 1..Len(s) : IsWrapperTok(s[k])}
    IN IF hits = {} THEN 0 ELSE CHOOSE k \in hits : \A j \in hits : k <= j

\* A mutant of Unwrap: the slice starts at the wrapper, res[ind0 : ind1].
Unwrap_KeepWrapper(res) ==
    LET ind0 == FirstWrapper(res)
        ind1 == IF ind0 = 0 THEN 0 ELSE IndexFrom(res, T_dd, ind0 + 1)
        ind2 == IF ind1 = 0 THEN 0 ELSE IndexFrom(res, T_dd, ind1 + 1)
    IN IF ind2 = 0
       THEN [res |-> res, wrapped |-> FALSE, assembler |-> <<>>]
       ELSE [res |-> SubSeq(res, ind0, ind1 - 1) \o SubSeq(res, ind2 + 1, Len(res)),
             wrapped |-> TRUE,
             assembler |-> SubSeq(res, ind1 + 1, ind2 - 1)]

\* The try block: any ValueError leaves res as it is and assembler None
\* (wrapped = FALSE).
Unwrap(res) ==
    LET ind0 == FirstWrapper(res)
        ind1 == IF ind0 = 0 THEN 0 ELSE IndexFrom(res, T_dd, ind0 + 1)
        ind2 == IF ind1 = 0 THEN 0 ELSE IndexFrom(res, T_dd, ind1 + 1)
    IN IF ind2 = 0
       THEN [res |-> res, wrapped |-> FALSE, assembler |-> <<>>]
       ELSE [res |-> SubSeq(res, ind0 + 1, ind1 - 1) \o SubSeq(res, ind2 + 1, Len(res)),
             wrapped |-> TRUE,
             assembler |-> SubSeq(res, ind1 + 1, ind2 - 1)]

fixup_build_command(parts, ignore_part) == Unwrap(StripParts(parts, ignore_part))

\* Tokens the short lists are drawn from.
FxAlphabet == {T_cc, T_wrap, T_dd, T_o, T_src}

\* Tokens the segments of a wrapped list are drawn from.
FxPlain == {T_cc, T_as}

\* Token lists of the shape  pre <wrapper> mid -- asm -- post.
FxShaped ==
    {pre \o <<T_wrap>> \o mid \o <<T_dd>> \o asm \o <<T_dd>> \o post :
        pre \in SeqsUpTo(FxPlain, MaxSeg), mid \in SeqsUpTo(FxPlain, MaxSeg),
        asm \in SeqsUpTo(FxPlain, MaxSeg), post \in SeqsUpTo(FxPlain, MaxSeg)}

FxInit ==
    /\ fx_parts \in SeqsUpTo(FxAlphabet, MaxParts) \cup FxShaped
    /\ fx_res = <<>>
    /\ fx_asm = [wrapped |-> FALSE, assembler |-> <<>>]
    /\ fx_pc = "strip"

FxIdle ==
    /\ fx_parts = <<>>
    /\ fx_res = <<>>
    /\ fx_asm = [wrapped |-> FALSE, assembler |-> <<>>]
    /\ fx_pc = "idle"

FxOthers == <<asmVars, dirVars, mkVars, fbVars, ppVars, mainVars>>

\* The first loop of fixup_build_command, with the source file as ignore_part.
FxStrip ==
    /\ fx_pc = "strip"
    /\ fx_res' = StripParts(fx_parts, T_src)
    /\ fx_pc' = "unwrap"
    /\ UNCHANGED <<fx_parts, fx_asm>>
    /\ UNCHANGED FxOthers

\* The try block and the return.
FxUnwrap ==
    /\ fx_pc = "unwrap"
    /\ LET u == Unwrap(fx_res) IN
       /\ fx_res' = u.res
       /\ fx_asm' = [wrapped |-> u.wrapped, assembler |-> u.assembler]
    /\ fx_pc' = "returned"
    /\ UNCHANGED fx_parts
    /\ UNCHANGED FxOthers

FxNext == FxStrip \/ FxUnwrap


(***************************************************************************)
(* find_build_command_line: the scan of make's trace                       *)
(***************************************************************************)

\* Longest build trace explored.
MaxTrace == 3

\* rel_c_file, the source path relative to the makefile's directory.
RelCFile == T_src

\* The trace lines explored, each already split into tokens (the lines hold
\* no quoting, so shlex.split cuts them at the blanks).
TracePool ==
    { <<T_cc, T_c, T_o, T_obj, T_src>>,
      <<T_cc, T_c, <<"src", "", "a.c">>, T_o, T_obj, T_MF, T_dep>>,
      <<T_cc, T_syn, T_o, T_obj, T_src>>,
      <<T_cc, T_c, T_src>>,
      <<T_cc, T_c, T_o, <<"build", "b.o">>, <<"src", "b.c">>>>,
      <<T_py, T_wrap, T_cc, T_dd, T_as, T_march, T_dd, T_c, T_o, T_obj, T_src>>,
      <<T_cc, T_c, T_o, T_obj, <<".", "src", "a.c">>>> }

\* Components of a token left by the two replace loops: "//" -> "/" drops an
\* empty inner component, "/./" -> "/" drops an inner ".".
RECURSIVE NormalizeFrom(_, _)
NormalizeFrom(tok, k) ==
    IF k > Len(tok) THEN <<>>
    ELSE IF 1 < k /\ k < Len(tok) /\ tok[k] \in {"", "."} THEN NormalizeFrom(tok, k + 1)
    ELSE <<tok[k]>> \o NormalizeFrom(tok, k + 1)

NormalizeTok(tok) == NormalizeFrom(tok, 1)

\* The line after the two 'while ... in line' loops.
NormalizeLine(line) == [k \in 1..Len(line) |-> NormalizeTok(line[k])]

\* 'rel_c_file in line' on the text: some token holds the path's components
\* in a row.
LineMentions(line, rel) ==
    \E k \in 1..Len(line) : \E i \in 1..Len(line[k]) :
        /\ i + Len(rel) - 1 <= Len(line[k])
        /\ SubSeq(line[k], i, i + Len(rel) - 1) = rel

\* The three tests on the split line (lines 163-168).
IsCandidate(parts) ==
    /\ RelCFile \in Range(parts)
    /\ T_o \in Range(parts)
    /\ T_syn \notin Range(parts)

FbInit ==
    /\ fb_trace \in SeqsUpTo(TracePool, MaxTrace)
    /\ fb_i = 1
    /\ fb_output = <<>>
    /\ fb_assembler = DefaultAsCmdline
    /\ fb_close = FALSE
    /\ fb_pc = "loop"
    /\ fb_result = [compiler |-> <<>>, assembler |-> <<>>]

FbIdle ==
    /\ fb_trace = <<>>
    /\ fb_i = 1
    /\ fb_output = <<>>
    /\ fb_assembler = DefaultAsCmdline
    /\ fb_close = FALSE
    /\ fb_pc = "idle"
    /\ fb_result = [compiler |-> <<>>, assembler |-> <<>>]

FbOthers == <<asmVars, dirVars, mkVars, fxVars, ppVars, mainVars>>

\* One iteration of 'for line in debug_output'.
FbScanLine ==
    /\ fb_pc = "loop"
    /\ fb_i <= Len(fb_trace)
    /\ LET line == NormalizeLine(fb_trace[fb_i]) IN
       IF ~LineMentions(line, RelCFile)
       THEN UNCHANGED <<fb_output, fb_assembler, fb_close>>
       ELSE /\ fb_close' = TRUE
            /\ IF ~IsCandidate(line)
               THEN UNCHANGED <<fb_output, fb_assembler>>
               ELSE LET f == fixup_build_command(line, RelCFile) IN
                    /\ fb_assembler' = IF f.wrapped /\ f.assembler # <<>>
                                       THEN f.assembler ELSE fb_assembler
                    /\ fb_output' = Append(fb_output, f.res)
    /\ fb_i' = fb_i + 1
    /\ UNCHANGED <<fb_trace, fb_pc, fb_result>>
    /\ UNCHANGED FbOthers

\* After the loop. With no candidate: the "Failed to find compile command"
\* message and sys.exit(1). With several: "\n".join(output) is applied to a
\* list of lists and raises TypeError before the "found multiple compile
\* commands" message is built, so that message is never printed. With one:
\* the return.
FbFinish ==
    /\ fb_pc = "loop"
    /\ fb_i > Len(fb_trace)
    /\ IF fb_output = <<>>
       THEN /\ fb_pc' = "exit_not_found"
            /\ UNCHANGED fb_result
       ELSE IF Len(fb_output) > 1
       THEN /\ fb_pc' = "crash_TypeError"
            /\ UNCHANGED fb_result
       ELSE /\ fb_pc' = "returned"
            /\ fb_result' = [compiler |-> fb_output[1], assembler |-> fb_assembler]
    /\ UNCHANGED <<fb_trace, fb_i, fb_output, fb_assembler, fb_close>>
    /\ UNCHANGED FbOthers

FbNext == FbScanLine \/ FbFinish


(***************************************************************************)
(* preprocess_c_with_macros. A source line is a sequence of lexical        *)
(* tokens; "sp" is one blank, every token outside NonIdentToks is a run of *)
(* [a-zA-Z0-9_] characters.                                                *)
(***************************************************************************)

\* Longest directives-only output explored, in lines.
MaxSrcLines == 4

NonIdentToks == {"sp", "(", ")", ";", "=", "#define", "#pragma"}

IsIdent(t) == t \notin NonIdentToks

\* Names that start with "__STDC_".
StdcNames == {"__STDC_HOSTED__"}

\* The lines the directives-only output is drawn from.
L_defF == <<"#define", "sp", "F", "(", ")", "sp", "G", "(", ")">>
L_defG == <<"#define", "sp", "G", "(", ")", "sp", "F", "(", ")">>
L_useF == <<"sp", "sp", "x", "sp", "=", "sp", "F", "(", ")", ";">>
L_useG == <<"sp", "sp", "x", "sp", "=", "sp", "G", "(", ")", ";">>
L_col0F == <<"F", "(", ")", ";">>
L_stdc == <<"#define", "sp", "__STDC_HOSTED__", "sp", "1">>

SrcPool == {L_defF, L_defG, L_useF, L_useG, L_col0F, L_stdc}

\* re.finditer(r"^([a-zA-Z0-9_]+)\(", source, re.MULTILINE): the names called
\* at column zero.
ColumnZeroCalls(source) ==
    {source[k][1] : k \in {j \in 1..Len(source) :
        Len(source[j]) >= 2 /\ IsIdent(source[j][1]) /\ source[j][2] = "("}}

\* A line that r"^#define ([a-zA-Z0-9_]+)\(" matches.
IsFnDefine(line) ==
    /\ Len(line) >= 4
    /\ line[1] = "#define" /\ line[2] = "sp" /\ IsIdent(line[3]) /\ line[4] = "("

\* A mutant of Repl: the test of expand_macros is inverted.
Repl_Inverted(line, expand) ==
    IF IsFnDefine(line) /\ line[3] \in expand
    THEN <<"_permuter", "sp", "define">> \o Tail(line)
    ELSE line

\* re.sub with repl: "#define NAME(" stays for a name of expand_macros and
\* becomes "_permuter define NAME(" for any other.
Repl(line, expand) ==
    IF IsFnDefine(line) /\ line[3] \notin expand
    THEN <<"_permuter", "sp", "define">> \o Tail(line)
    ELSE line

\* A line that r"^#define __STDC_.*\n" matches.
IsStdcDefine(line) ==
    Len(line) >= 3 /\ line[1] = "#define" /\ line[2] = "sp" /\ line[3] \in StdcNames

\* Lines 228-232: both substitutions over the whole text.
RewriteSource(source, expand) ==
    LET hidden == [k \in 1..Len(source) |-> Repl(source[k], expand)]
        Keep(line) == ~IsStdcDefine(line)
    IN SelectSeq(hidden, Keep)

\* The replacement list of a function-like definition without parameters:
\* what follows "NAME()" and one blank.
MacroBody(line) ==
    IF Len(line) >= 6 /\ line[6] = "sp" THEN SubSeq(line, 7, Len(line))
    ELSE SubSeq(line, 6, Len(line))

\* The preprocessor's expansion of a text line: an invocation NAME() of a
\* defined macro is replaced by its body, which is rescanned with NAME itself
\* no longer expanded.
RECURSIVE ExpandToks(_, _, _)
ExpandToks(toks, defs, disabled) ==
    IF toks = <<>> THEN <<>>
    ELSE IF /\ Len(toks) >= 3
            /\ toks[1] \in (DOMAIN defs) \ disabled
            /\ toks[2] = "(" /\ toks[3] = ")"
    THEN ExpandToks(defs[toks[1]], defs, disabled \cup {toks[1]})
             \o ExpandToks(SubSeq(toks, 4, Len(toks)), defs, disabled)
    ELSE <<toks[1]>> \o ExpandToks(Tail(toks), defs, disabled)

\* The real pass (cpp -P -undef): a directive is consumed, and defines its
\* macro from there on; any other line is expanded and output.
RECURSIVE CppFrom(_, _, _)
CppFrom(source, k, defs) ==
    IF k > Len(source) THEN <<>>
    ELSE LET line == source[k] IN
         IF Len(line) >= 1 /\ line[1] = "#define"
         THEN CppFrom(source, k + 1,
                      IF IsFnDefine(line)
                      THEN (line[3] :> MacroBody(line)) @@ defs
                      ELSE defs)
         ELSE <<ExpandToks(line, defs, {})>> \o CppFrom(source, k + 1, defs)

CppPass(source) == CppFrom(source, 1, <<>>)

\* line.startswith("_permuter define ")
IsLateDefineLine(line) ==
    /\ Len(line) >= 4
    /\ line[1] = "_permuter" /\ line[2] = "sp" /\ line[3] = "define" /\ line[4] = "sp"

\* The position of the first "(" of a line (0 when it has none).
FirstParen(line) ==
    LET hits == {k \in 1..Len(line) : line[k] = "("}
    IN IF hits = {} THEN 0 ELSE CHOOSE k \in hits : \A j \in hits : k <= j

\* before.split()[2], before being the text up to the first "(".
LateName(line) ==
    LET before == SubSeq(line, 1, FirstParen(line) - 1)
        NotBlank(t) == t # "sp"
    IN SelectSeq(before, NotBlank)[3]

\* after: the text behind the first "(".
LateAfter(line) == SubSeq(line, FirstParen(line) + 1, Len(line))

\* reg_calls.finditer(line): the identifiers directly followed by "(", in
\* order.
RECURSIVE CallsFrom(_, _)
CallsFrom(line, k) ==
    IF k >= Len(line) THEN <<>>
    ELSE IF IsIdent(line[k]) /\ line[k + 1] = "(" THEN <<line[k]>> \o CallsFrom(line, k + 1)
    ELSE CallsFrom(line, k + 1)

CallsIn(line) == CallsFrom(line, 1)

\* A mutant of ScanContext: a definition's calls are booked under the root.
ScanContext_AlwaysRoot(line) == ""

\* The graph node a line's calls are recorded under: the macro's name for a
\* hidden definition, "" for any other line.
ScanContext(line) == IF IsLateDefineLine(line) THEN LateName(line) ELSE ""

\* graph[name] of the defaultdict(list).
GraphGet(g, name) == IF name \in DOMAIN g THEN g[name] ELSE <<>>

PpInit ==
    /\ pp_src \in SeqsUpTo(SrcPool, MaxSrcLines)
    /\ pp_source = pp_src
    /\ expand_macros = {}
    /\ late_defines = <<>>
    /\ pp_lines = <<>>
    /\ graph = <<>>
    /\ pp_i = 1
    /\ used_anywhere = {}
    /\ used_by_nonmacro = {}
    /\ queue = <<>>
    /\ pp_popped = <<>>
    /\ pp_out = <<>>
    /\ pp_pc = "classify"

PpIdle ==
    /\ pp_src = <<>>
    /\ pp_source = <<>>
    /\ expand_macros = {}
    /\ late_defines = <<>>
    /\ pp_lines = <<>>
    /\ graph = <<>>
    /\ pp_i = 1
    /\ used_anywhere = {}
    /\ used_by_nonmacro = {}
    /\ queue = <<>>
    /\ pp_popped = <<>>
    /\ pp_out = <<>>
    /\ pp_pc = "idle"

PpOthers == <<asmVars, dirVars, mkVars, fxVars, fbVars, mainVars>>

\* Lines 214-216: expand_macros from the directives-only output.
PpClassify ==
    /\ pp_pc = "classify"
    /\ expand_macros' = ColumnZeroCalls(pp_source)
    /\ pp_pc' = "rewrite"
    /\ UNCHANGED <<pp_src, pp_source, late_defines, pp_lines, graph, pp_i,
                   used_anywhere, used_by_nonmacro, queue, pp_popped, pp_out>>
    /\ UNCHANGED PpOthers

\* Lines 221-232: hide the function-like definitions outside expand_macros,
\* drop the __STDC_ definitions.
PpRewrite ==
    /\ pp_pc = "rewrite"
    /\ pp_source' = RewriteSource(pp_source, expand_macros)
    /\ pp_pc' = "cpp"
    /\ UNCHANGED <<pp_src, expand_macros, late_defines, pp_lines, graph, pp_i,
                   used_anywhere, used_by_nonmacro, queue, pp_popped, pp_out>>
    /\ UNCHANGED PpOthers

\* Lines 235-246: the real pass over the rewritten text, and the empty
\* late_defines, lines and graph.
PpRealPass ==
    /\ pp_pc = "cpp"
    /\ pp_source' = CppPass(pp_source)
    /\ late_defines' = <<>>
    /\ pp_lines' = <<>>
    /\ graph' = <<>>
    /\ pp_i' = 1
    /\ pp_pc' = "scan"
    /\ UNCHANGED <<pp_src, expand_macros, used_anywhere, used_by_nonmacro, queue,
                   pp_popped, pp_out>>
    /\ UNCHANGED PpOthers

\* One iteration of 'for line in source.splitlines()' (lines 248-258).
PpScanLine ==
    /\ pp_pc = "scan"
    /\ pp_i <= Len(pp_source)
    /\ LET line == pp_source[pp_i]
           name == ScanContext(line)
       IN /\ IF IsLateDefineLine(line)
             THEN /\ late_defines' = Append(late_defines, <<LateName(line), LateAfter(line)>>)
                  /\ UNCHANGED pp_lines
             ELSE /\ pp_lines' = Append(pp_lines, line)
                  /\ UNCHANGED late_defines
          /\ graph' = IF CallsIn(line) = <<>> THEN graph
                      ELSE (name :> (GraphGet(graph, name) \o CallsIn(line))) @@ graph
    /\ pp_i' = pp_i + 1
    /\ UNCHANGED <<pp_src, pp_source, expand_macros, used_anywhere, used_by_nonmacro,
                   queue, pp_popped, pp_out, pp_pc>>
    /\ UNCHANGED PpOthers

\* Lines 261-263, once every line is scanned.
PpStartPrune ==
    /\ pp_pc = "scan"
    /\ pp_i > Len(pp_source)
    /\ used_anywhere' = {}
    /\ used_by_nonmacro' = Range(GraphGet(graph, ""))
    /\ queue' = <<"">>
    /\ pp_pc' = "prune"
    /\ UNCHANGED <<pp_src, pp_source, expand_macros, late_defines, pp_lines, graph, pp_i,
                   pp_popped, pp_out>>
    /\ UNCHANGED PpOthers

\* 'if name not in used_anywhere'
Unvisited(name, used) == name \notin used

\* A mutant of QueueExtend: only the first successor is pushed.
QueueExtend_FirstOnly(q, succ) == IF succ = <<>> THEN q ELSE Append(q, succ[1])

\* queue.extend(graph[name])
QueueExtend(q, succ) == q \o succ

\* One iteration of 'while queue' (lines 264-268); pp_popped records the
\* names whose successors were pushed.
PpPruneStep ==
    /\ pp_pc = "prune"
    /\ queue # <<>>
    /\ LET name == queue[Len(queue)]
           rest == SubSeq(queue, 1, Len(queue) - 1)
       IN IF Unvisited(name, used_anywhere)
          THEN /\ used_anywhere' = used_anywhere \cup {name}
               /\ queue' = QueueExtend(rest, GraphGet(graph, name))
               /\ pp_popped' = Append(pp_popped, name)
          ELSE /\ queue' = rest
               /\ UNCHANGED <<used_anywhere, pp_popped>>
    /\ UNCHANGED <<pp_src, pp_source, expand_macros, late_defines, pp_lines, graph, pp_i,
                   used_by_nonmacro, pp_out, pp_pc>>
    /\ UNCHANGED PpOthers

PragmaStart == <<"#pragma", "sp", "_permuter", "sp", "latedefine", "sp", "start">>
PragmaEnd == <<"#pragma", "sp", "_permuter", "sp", "latedefine", "sp", "end">>

\* f"#pragma _permuter define {name}({after}"
PragmaDefine(name, after) ==
    <<"#pragma", "sp", "_permuter", "sp", "define", "sp", name, "(">> \o after

\* f"int {name}();"
ForwardDecl(name) == <<"int", "sp", name, "(", ")", ";">>

\* A mutant of EmitLines: a forward declaration for every used definition.
EmitLines_ForwardAllUsed(defines, used, direct, lines) ==
    LET IsUsed(d) == d[1] \in used
        redecl == SelectSeq(defines, IsUsed)
    IN <<PragmaStart>>
       \o [k \in 1..Len(redecl) |-> PragmaDefine(redecl[k][1], redecl[k][2])]
       \o [k \in 1..Len(redecl) |-> ForwardDecl(redecl[k][1])]
       \o <<PragmaEnd>>
       \o lines
       \o << <<>> >>

\* The returned text (lines 270-285), as its lines.
EmitLines(defines, used, direct, lines) ==
    LET IsUsed(d) == d[1] \in used
        IsDirect(d) == d[1] \in direct
        redecl == SelectSeq(defines, IsUsed)
        fwd == SelectSeq(defines, IsDirect)
    IN <<PragmaStart>>
       \o [k \in 1..Len(redecl) |-> PragmaDefine(redecl[k][1], redecl[k][2])]
       \o [k \in 1..Len(fwd) |-> ForwardDecl(fwd[k][1])]
       \o <<PragmaEnd>>
       \o lines
       \o << <<>> >>

\* The work list is empty: build the result and return it.
PpEmit ==
    /\ pp_pc = "prune"
    /\ queue = <<>>
    /\ pp_out' = EmitLines(late_defines, used_anywhere, used_by_nonmacro, pp_lines)
    /\ pp_pc' = "done"
    /\ UNCHANGED <<pp_src, pp_source, expand_macros, late_defines, pp_lines, graph, pp_i,
                   used_anywhere, used_by_nonmacro, queue, pp_popped>>
    /\ UNCHANGED PpOthers

PpNext ==
    \/ PpClassify
    \/ PpRewrite
    \/ PpRealPass
    \/ PpScanLine
    \/ PpStartPrune
    \/ PpPruneStep
    \/ PpEmit


(***************************************************************************)
(* main: the run, each external step succeeding or failing                 *)
(***************************************************************************)

\* The function name parse_asm returned.
MainFuncName == "foo"

\* The files main writes into the function directory before assembling.
WrittenFiles == {"base.c", "function.txt", "compile.sh", "target.s"}

MainInit ==
    /\ m_keep \in BOOLEAN
    /\ m_preserve \in BOOLEAN
    /\ m_fs \in SUBSET {DirName(MainFuncName, k) : k \in 1..MaxPre}
    /\ m_dirname = <<>>
    /\ m_files = {}
    /\ m_pc = "parse_asm"
    /\ m_exit = "running"
    /\ m_fail = None
    /\ m_log = {}

MainIdle ==
    /\ m_keep = FALSE
    /\ m_preserve = FALSE
    /\ m_fs = {}
    /\ m_dirname = <<>>
    /\ m_files = {}
    /\ m_pc = "idle"
    /\ m_exit = "running"
    /\ m_fail = None
    /\ m_log = {}

MainOthers == <<asmVars, dirVars, mkVars, fxVars, fbVars, ppVars>>

\* sys.exit(1), or an exception nothing catches, before the try block.
MainAbort(why) ==
    /\ m_fail' = why
    /\ m_exit' = "nonzero"
    /\ m_pc' = "exit"
    /\ UNCHANGED <<m_fs, m_dirname, m_files, m_log>>

\* Line 419: parse_asm returns, or exits on an unreadable file, a missing
\* name or a bad name.
MainParseAsm ==
    /\ m_pc = "parse_asm"
    /\ \E outcome \in {"ok", "asm_unreadable", "asm_no_name", "asm_bad_name"} :
         IF outcome = "ok"
         THEN /\ m_pc' = "find_build"
              /\ UNCHANGED <<m_fs, m_dirname, m_files, m_exit, m_fail, m_log>>
         ELSE MainAbort(outcome)
    /\ UNCHANGED <<m_keep, m_preserve>>
    /\ UNCHANGED MainOthers

\* Line 422: find_build_command_line returns, or the run ends on a missing
\* makefile, on no compile command, or on several (the TypeError of line 190).
MainFindBuild ==
    /\ m_pc = "find_build"
    /\ \E outcome \in {"ok", "no_makefile", "no_command", "multiple_commands"} :
         IF outcome = "ok"
         THEN /\ m_pc' = "import_c"
              /\ UNCHANGED <<m_fs, m_dirname, m_files, m_exit, m_fail, m_log>>
         ELSE MainAbort(outcome)
    /\ UNCHANGED <<m_keep, m_preserve>>
    /\ UNCHANGED MainOthers

\* Line 426: import_c_file; a failing preprocessor run (either pass of the
\* macro-preserving mode, or the single pass) is reported and exits.
MainImportC ==
    /\ m_pc = "import_c"
    /\ \E outcome \in (IF m_preserve THEN {"ok", "cpp_pass1_failed", "cpp_pass2_failed"}
                       ELSE {"ok", "cpp_failed"}) :
         IF outcome = "ok"
         THEN /\ m_pc' = "create_directory"
              /\ UNCHANGED <<m_fs, m_dirname, m_files, m_exit, m_fail, m_log>>
         ELSE MainAbort(outcome)
    /\ UNCHANGED <<m_keep, m_preserve>>
    /\ UNCHANGED MainOthers

\* Line 428: create_directory, alone on nonmatchings/: the first free name.
MainCreateDirectory ==
    /\ m_pc = "create_directory"
    /\ LET free == {k \in 1..(MaxPre + 1) : DirName(MainFuncName, k) \notin m_fs}
           ctr == CHOOSE k \in free : \A j \in free : k <= j
       IN /\ m_dirname' = DirName(MainFuncName, ctr)
          /\ m_fs' = m_fs \cup {DirName(MainFuncName, ctr)}
    /\ m_log' = m_log \cup {"created"}
    /\ m_pc' = "write"
    /\ UNCHANGED <<m_keep, m_preserve, m_files, m_exit, m_fail>>
    /\ UNCHANGED MainOthers

\* Lines 438-441: the four files; an OSError goes to the except clause.
MainWriteFiles ==
    /\ m_pc = "write"
    /\ \E ok \in BOOLEAN :
         IF ok
         THEN /\ m_files' = WrittenFiles
              /\ m_pc' = "compile_asm"
              /\ UNCHANGED m_fail
         ELSE /\ m_fail' = "write_failed"
              /\ m_pc' = "except"
              /\ UNCHANGED m_files
    /\ UNCHANGED <<m_keep, m_preserve, m_fs, m_dirname, m_exit, m_log>>
    /\ UNCHANGED MainOthers

\* Line 442: compile_asm. A failing assembler (CalledProcessError) is
\* reported and sys.exit(1) raises SystemExit into the except clause; an
\* assembler that cannot be started (OSError) is not caught by compile_asm
\* and reaches the except clause as it is.
MainCompileAsm ==
    /\ m_pc = "compile_asm"
    /\ \E outcome \in {"ok", "CalledProcessError", "OSError"} :
         IF outcome = "ok"
         THEN /\ m_files' = m_files \cup {"target.o"}
              /\ m_log' = m_log \cup {"assembled"}
              /\ m_pc' = "compile_base"
              /\ UNCHANGED m_fail
         ELSE /\ m_fail' = IF outcome = "CalledProcessError"
                           THEN "assembler_failed" ELSE "assembler_not_started"
              /\ m_pc' = "except"
              /\ UNCHANGED <<m_files, m_log>>
    /\ UNCHANGED <<m_keep, m_preserve, m_fs, m_dirname, m_exit>>
    /\ UNCHANGED MainOthers

\* Line 443: compile_base. It catches the CalledProcessError of a failing
\* compile and only prints a warning; a compile script that cannot be
\* started (OSError) is not caught and reaches the except clause of main.
MainCompileBase ==
    /\ m_pc = "compile_base"
    /\ \E outcome \in {"ok", "CalledProcessError", "OSError"} :
         IF outcome = "ok"
         THEN /\ m_files' = m_files \cup {"base.o"}
              /\ m_pc' = "done"
              /\ UNCHANGED <<m_fail, m_log>>
         ELSE IF outcome = "CalledProcessError"
         THEN /\ m_log' = m_log \cup {"base_compile_warning"}
              /\ m_pc' = "done"
              /\ UNCHANGED <<m_files, m_fail>>
         ELSE /\ m_fail' = "base_compile_not_started"
              /\ m_pc' = "except"
              /\ UNCHANGED <<m_files, m_log>>
    /\ UNCHANGED <<m_keep, m_preserve, m_fs, m_dirname, m_exit>>
    /\ UNCHANGED MainOthers

\* A mutant of DeletesOnError: the directory is never removed.
DeletesOnError_Never(keep) == FALSE

\* 'if not args.keep'
DeletesOnError(keep) == ~keep

\* Lines 444-448: the except clause removes the directory unless --keep was
\* given, and raises again: the run ends with a nonzero status.
MainExcept ==
    /\ m_pc = "except"
    /\ IF DeletesOnError(m_keep)
       THEN /\ m_fs' = m_fs \ {m_dirname}
            /\ m_files' = {}
       ELSE UNCHANGED <<m_fs, m_files>>
    /\ m_exit' = "nonzero"
    /\ m_pc' = "exit"
    /\ UNCHANGED <<m_keep, m_preserve, m_dirname, m_fail, m_log>>
    /\ UNCHANGED MainOthers

\* Line 450: "Done."; the run ends with status 0.
MainDone ==
    /\ m_pc = "done"
    /\ m_exit' = "zero"
    /\ m_pc' = "exit"
    /\ UNCHANGED <<m_keep, m_preserve, m_fs, m_dirname, m_files, m_fail, m_log>>
    /\ UNCHANGED MainOthers

MainNext ==
    \/ MainParseAsm
    \/ MainFindBuild
    \/ MainImportC
    \/ MainCreateDirectory
    \/ MainWriteFiles
    \/ MainCompileAsm
    \/ MainCompileBase
    \/ MainExcept
    \/ MainDone

(***************************************************************************)
(* Specifications                                                          *)
(***************************************************************************)

InitAsm == AsmInit /\ DirIdle /\ MkIdle /\ FxIdle /\ FbIdle /\ PpIdle /\ MainIdle

SpecAsm == InitAsm /\ [][AsmNext]_vars

InitDir == AsmIdle /\ DirInit /\ MkIdle /\ FxIdle /\ FbIdle /\ PpIdle /\ MainIdle

SpecDir == InitDir /\ [][DirNext]_vars

\* Every invocation is a running process: it keeps taking its steps.
FairSpecDir == SpecDir /\ \A p \in Procs : WF_vars(CdStep(p))

InitMk == AsmIdle /\ DirIdle /\ MkInit /\ FxIdle /\ FbIdle /\ PpIdle /\ MainIdle

SpecMk == InitMk /\ [][MkNext]_vars

InitFix == AsmIdle /\ DirIdle /\ MkIdle /\ FxInit /\ FbIdle /\ PpIdle /\ MainIdle

SpecFix == InitFix /\ [][FxNext]_vars

InitBuild == AsmIdle /\ DirIdle /\ MkIdle /\ FxIdle /\ FbInit /\ PpIdle /\ MainIdle

SpecBuild == InitBuild /\ [][FbNext]_vars

InitMacro == AsmIdle /\ DirIdle /\ MkIdle /\ FxIdle /\ FbIdle /\ PpInit /\ MainIdle

SpecMacro == InitMacro /\ [][PpNext]_vars

\* The function is one sequential computation: it keeps running until it
\* returns.
FairSpecMacro == SpecMacro /\ WF_vars(PpNext)

Init == AsmIdle /\ DirIdle /\ MkIdle /\ FxIdle /\ FbIdle /\ PpIdle /\ MainInit

Next == MainNext

Spec == Init /\ [][Next]_vars


(***************************************************************************)
(* Properties of fixup_build_command and find_makefile_dir                 *)
(***************************************************************************)

\* No token of the list is one the first loop drops.
FxPlainList(parts) == \A k \in 1..Len(parts) : parts[k] \notin {T_o, T_MF, T_src}

\* parts reads  pre <wrapper> mid -- asm -- post : i0 is the first token
\* holding a wrapper name, i1 the first "--" behind it, i2 the next "--".
FxShape(parts, i0, i1, i2) ==
    /\ 1 <= i0 /\ i0 < i1 /\ i1 < i2 /\ i2 <= Len(parts)
    /\ IsWrapperTok(parts[i0])
    /\ \A j \in 1..(i0 - 1) : ~IsWrapperTok(parts[j])
    /\ parts[i1] = T_dd /\ parts[i2] = T_dd
    /\ \A j \in (i0 + 1)..(i2 - 1) : j # i1 => parts[j] # T_dd

\* C1, as amended: for a token list  pre <wrapper> mid -- asm -- post  the
\* returned compiler tokens are mid followed by post (the tokens between the
\* wrapper and the first "--", then those after the second "--"; pre and the
\* wrapper are dropped), and the returned assembler tokens are asm.
C1_UnwrapKeepsTokensBehindWrapper ==
    (fx_pc = "returned" /\ FxPlainList(fx_parts)) =>
        \A i0 \in 1..Len(fx_parts) : \A i1 \in (i0 + 1)..Len(fx_parts) :
          \A i2 \in (i1 + 1)..Len(fx_parts) :
            FxShape(fx_parts, i0, i1, i2) =>
                /\ fx_res = SubSeq(fx_parts, i0 + 1, i1 - 1)
                              \o SubSeq(fx_parts, i2 + 1, Len(fx_parts))
                /\ fx_asm.wrapped
                /\ fx_asm.assembler = SubSeq(fx_parts, i1 + 1, i2 - 1)

\* C1, as stated: for  A B <wrapper> C -- D E -- F G  the compiler tokens are
\* the tokens before the wrapper plus those after the second "--" (A B F G),
\* the assembler tokens those between the two "--" (D E).
C1_UnwrapKeepsTokensBeforeWrapper ==
    (fx_pc = "returned" /\ FxPlainList(fx_parts)) =>
        \A i0 \in 1..Len(fx_parts) : \A i1 \in (i0 + 1)..Len(fx_parts) :
          \A i2 \in (i1 + 1)..Len(fx_parts) :
            FxShape(fx_parts, i0, i1, i2) =>
                /\ fx_res = SubSeq(fx_parts, 1, i0 - 1)
                              \o SubSeq(fx_parts, i2 + 1, Len(fx_parts))
                /\ fx_asm.assembler = SubSeq(fx_parts, i1 + 1, i2 - 1)

\* The list  cc as <wrapper> cc -- as cc -- cc as  (A B <wrapper> C -- D E --
\* F G with A B differing from C) has been unwrapped.
C1_Witness ==
    /\ fx_pc = "returned"
    /\ fx_parts = <<T_cc, T_as, T_wrap, T_cc, T_dd, T_as, T_cc, T_dd, T_cc, T_as>>
    /\ fx_res = <<T_cc, T_cc, T_as>>

\* The directory of the source file.
MkSourceDir == Dirname(mk_cfile)

\* The directories from dir up to the root, dir included.
MkAncestors(dir) == {SubSeq(dir, 1, k) : k \in 0..Len(dir)}

\* C2, as stated: the search returns the nearest directory holding a
\* makefile on the way from the source file's own directory (included) up to
\* the root, and fails, having reached the root, only when none of them
\* holds one.
C2_NearestManifestFromSourceDir ==
    LET holders == {d \in MkAncestors(MkSourceDir) : HoldsMakefile(d, mk_files)}
    IN /\ mk_pc = "returned" =>
            /\ mk_dirname \in holders
            /\ \A d \in holders : Len(d) <= Len(mk_dirname)
       /\ mk_pc = "exit1" => (holders = {} /\ mk_old = <<>>)

(***************************************************************************)
(* Properties of find_build_command_line                                   *)
(***************************************************************************)

\* The trace lines that hold the source path as a whole token, hold "-o" and
\* do not hold "-fsyntax-only".
FbQualifying ==
    {k \in 1..Len(fb_trace) :
        LET parts == NormalizeLine(fb_trace[k])
        IN RelCFile \in Range(parts) /\ T_o \in Range(parts) /\ T_syn \notin Range(parts)}

\* C3, as stated: with exactly one qualifying line the result is that line's
\* tokens less the "-o"/"-MF" pairs and the source token (stated here for a
\* line without the wrapper, whose unwrapping is C1's subject); with none the
\* run ends on the "not found" diagnostic; with two or more it ends on the
\* "ambiguous" diagnostic; nothing is returned in the last two cases.
C3_UniqueCandidateOrDiagnostic ==
    fb_pc \notin {"loop", "idle"} =>
        /\ Cardinality(FbQualifying) = 1 =>
             /\ fb_pc = "returned"
             /\ LET parts == NormalizeLine(fb_trace[CHOOSE k \in FbQualifying : TRUE])
                IN (\A j \in 1..Len(parts) : ~IsWrapperTok(parts[j])) =>
                       fb_result.compiler = StripParts(parts, RelCFile)
        /\ Cardinality(FbQualifying) = 0 => fb_pc = "exit_not_found"
        /\ Cardinality(FbQualifying) >= 2 => fb_pc = "exit_ambiguous"
        /\ fb_pc = "returned" => Cardinality(FbQualifying) = 1

(***************************************************************************)
(* Properties of parse_asm                                                 *)
(***************************************************************************)

\* The section in force once the first k lines are read: ".text" at first,
\* then the operand of the latest '.section' line or the latest bare section
\* directive.
RECURSIVE ActiveSection(_, _)
ActiveSection(file, k) ==
    IF k = 0 THEN ".text"
    ELSE LET line == file[k] IN
         IF Len(line) >= 2 /\ line[1] = ".section" THEN line[2]
         ELSE IF Len(line) = 1 /\ line[1] \in SectionNames THEN line[1]
         ELSE ActiveSection(file, k - 1)

\* The lines of the first n read while the executable section is in force.
RECURSIVE ExecutableLines(_, _)
ExecutableLines(file, n) ==
    IF n = 0 THEN <<>>
    ELSE IF ActiveSection(file, n) = ".text"
    THEN Append(ExecutableLines(file, n - 1), file[n])
    ELSE ExecutableLines(file, n - 1)

\* The identifier of the first glabel line read in the executable section.
FirstGlabel(file) ==
    LET hits == {k \in 1..Len(file) :
                    /\ ActiveSection(file, k) = ".text"
                    /\ Len(file[k]) >= 2 /\ file[k][1] = "glabel"}
    IN IF hits = {} THEN None
       ELSE file[CHOOSE k \in hits : \A j \in hits : k <= j][2]

\* C7: while scanning, the active section is the one the latest section
\* directive named (".text" before any), and the collected lines are exactly
\* the lines read under ".text", in order; what is returned is those lines
\* and the identifier of the first glabel line among them; and a scan that
\* captured no identifier, or one with a character outside [A-Za-z0-9_$],
\* exits with status 1 and returns nothing.
C7_ParseAsmCollectsExecutableSection ==
    /\ asm_pc \in {"loop", "returned", "exit1"} /\ asm_readable =>
         /\ cur_section = ActiveSection(asm_file, asm_i - 1)
         /\ asm_lines = ExecutableLines(asm_file, asm_i - 1)
    /\ asm_pc = "returned" =>
         /\ asm_i = Len(asm_file) + 1
         /\ func_name = FirstGlabel(asm_file)
         /\ func_name # None /\ FullMatchName(func_name)
    /\ (asm_pc \in {"returned", "exit1"} /\ asm_readable) =>
         ((FirstGlabel(asm_file) = None \/ ~FullMatchName(FirstGlabel(asm_file)))
             => asm_pc = "exit1")

\* A listing whose data section line was left out and whose lines of a
\* re-entered executable section were kept has been returned.
C7_Witness ==
    /\ asm_pc = "returned"
    /\ asm_file = << <<"glabel", "foo">>, <<".section", ".rodata">>, <<".text">> >>
    /\ asm_lines = << <<"glabel", "foo">>, <<".text">> >>
    /\ func_name = "foo"

(***************************************************************************)
(* Properties of main                                                      *)
(***************************************************************************)

\* The run's own function directory exists.
MainDirLeft == m_dirname # <<>> /\ m_dirname \in m_fs

\* The fatal errors: what ends the run before the try block, and what
\* reaches the except clause from the writes and from the assembler step.
MainFatal ==
    {"asm_unreadable", "asm_no_name", "asm_bad_name", "no_makefile", "no_command",
     "multiple_commands", "cpp_failed", "cpp_pass1_failed", "cpp_pass2_failed",
     "write_failed", "assembler_failed", "assembler_not_started"}

\* The base compile failed: its script ended with a nonzero status, or
\* could not be started.
MainBaseCompileFailed ==
    "base_compile_warning" \in m_log \/ m_fail = "base_compile_not_started"

\* C8, as amended: a run that met a fatal error ends with a nonzero status
\* and leaves no function directory unless --keep was given; a base compile
\* that ends with a nonzero status is not fatal (status 0, directory in
\* place), while a base compile that cannot be started is fatal like the
\* errors before it; at the end the directory exists exactly when the run
\* ended with status 0, or the directory had been created and --keep was
\* given.
C8_ExitStatusAndDirectory ==
    m_pc = "exit" =>
        /\ m_fail # None => (m_exit = "nonzero" /\ (MainDirLeft => m_keep))
        /\ m_fail = None => (m_exit = "zero" /\ MainDirLeft /\ "assembled" \in m_log)
        /\ "base_compile_warning" \in m_log => (m_exit = "zero" /\ MainDirLeft)
        /\ m_fail = "base_compile_not_started" => "assembled" \in m_log
        /\ MainDirLeft <=> (m_exit = "zero" \/ ("created" \in m_log /\ m_keep))

\* C8, as stated: a run that met a fatal error ends with a nonzero status
\* and leaves no function directory unless --keep was given; a failing base
\* compile is not fatal: the run ends with status 0 and its directory in
\* place; at the end the directory exists exactly when the assembler step
\* was passed, or the directory had been created and --keep was given.
C8_DirectoryIffAssemblerPassed ==
    m_pc = "exit" =>
        /\ m_fail \in MainFatal => (m_exit = "nonzero" /\ (MainDirLeft => m_keep))
        /\ MainBaseCompileFailed => (m_exit = "zero" /\ MainDirLeft)
        /\ MainDirLeft <=> ("assembled" \in m_log \/ ("created" \in m_log /\ m_keep))

\* A run without --keep whose base compile could not be started has ended:
\* the assembler step was passed, and the directory the run had created
\* beside an older one is gone.
C8_Witness ==
    /\ m_pc = "exit"
    /\ m_fail = "base_compile_not_started"
    /\ ~m_keep
    /\ "assembled" \in m_log
    /\ m_dirname = DirName(MainFuncName, 2)
    /\ ~MainDirLeft
    /\ m_exit = "nonzero"

(***************************************************************************)
(* Properties of create_directory                                          *)
(***************************************************************************)

\* The invocations that have returned.
CdReturned == {p \in Procs : cd_pc[p] = "returned"}

\* No two invocations hold the same directory; each holds one it created
\* itself, named name or name-k with k >= 2.
CdExclusive ==
    /\ \A p, q \in CdReturned : p # q => cd_ret[p] # cd_ret[q]
    /\ \A p \in CdReturned :
         /\ <<cd_ret[p], p>> \in fs_creator
         /\ \A q \in Procs : q # p => <<cd_ret[p], q>> \notin fs_creator
         /\ \/ cd_ret[p] = <<"nonmatchings", CdFuncName>>
            \/ \E k \in 2..(MaxPre + NumProcs) :
                   cd_ret[p] = <<"nonmatchings", CdFuncName, k>>

\* C10: concurrent invocations for one function name never return the same
\* directory, each returns a directory it created itself, named name or
\* name-k with k >= 2, and every invocation eventually returns.
C10_CreateDirectoryExclusive ==
    /\ []CdExclusive
    /\ <>(CdReturned = Procs)

\* Two invocations have returned, each after at least one failed attempt.
C10_Witness ==
    /\ CdReturned = Procs
    /\ \A p \in Procs : cd_ctr[p] >= 2
    /\ Cardinality({cd_ret[p] : p \in Procs}) = NumProcs


(***************************************************************************)
(* Properties of preprocess_c_with_macros                                  *)
(***************************************************************************)

\* The real pass has run: pp_source is its output.
PpPassed == pp_pc \in {"scan", "prune", "done"}

\* The call-syntax edges of the real pass's output: from "" for an ordinary
\* line, from the macro's name for a hidden definition, to every identifier
\* directly followed by "(" on the line.
PpEdges ==
    UNION {
        LET line == pp_source[k]
            from == IF IsLateDefineLine(line) THEN LateName(line) ELSE ""
        IN {<<from, line[j]>> : j \in {i \in 1..(Len(line) - 1) :
                                          IsIdent(line[i]) /\ line[i + 1] = "("}}
        : k \in 1..Len(pp_source)}

\* The nodes reachable from the set S by zero or more edges.
RECURSIVE ReachableFrom(_, _)
ReachableFrom(S, edges) ==
    LET more == S \cup {e[2] : e \in {d \in edges : d[1] \in S}}
    IN IF more = S THEN S ELSE ReachableFrom(more, edges)

\* The names reachable from the root, and its immediate successors.
PpReachable == ReachableFrom({""}, PpEdges)
PpDirect == {e[2] : e \in {d \in PpEdges : d[1] = ""}}

\* The hidden definitions in the real pass's output, as <<name, after>>.
PpHidden ==
    {<<LateName(pp_source[k]), LateAfter(pp_source[k])>> :
        k \in {j \in 1..Len(pp_source) : IsLateDefineLine(pp_source[j])}}

\* The lines of the returned text between the two latedefine markers, and
\* the lines behind the end marker.
PpEndMarker == CHOOSE k \in 1..Len(pp_out) : pp_out[k] = PragmaEnd /\ \A j \in 1..(k - 1) : pp_out[j] # PragmaEnd
PpBlock == {pp_out[k] : k \in 2..(PpEndMarker - 1)}
PpCode == {pp_out[k] : k \in (PpEndMarker + 1)..Len(pp_out)}

\* The block re-declares the macro called name, and declares it forward.
PpRedeclares(name) ==
    \E line \in PpBlock :
        /\ Len(line) >= 8
        /\ SubSeq(line, 1, 8) = <<"#pragma", "sp", "_permuter", "sp", "define", "sp", name, "(">>
PpForwardDeclares(name) == <<"int", "sp", name, "(", ")", ";">> \in PpBlock

\* The line holds a call of name.
PpCalls(line, name) ==
    \E i \in 1..(Len(line) - 1) : line[i] = name /\ line[i + 1] = "("

\* C4: a hidden function-like definition is re-declared in the
\* late-definition block, with the text the real pass left of it, exactly
\* when its name is reachable from the root through call-syntax edges; one
\* that is never invoked, directly or through reachable macro bodies, is not
\* in the block.
C4_RedeclaredIffReachable ==
    pp_pc = "done" =>
        \A d \in PpHidden :
            /\ PpRedeclares(d[1]) <=> d[1] \in PpReachable
            /\ PragmaDefine(d[1], d[2]) \in PpBlock <=> d[1] \in PpReachable

\* A hidden macro reached only through another macro's body is re-declared
\* while a call of the other macro is in the code.
C4_Witness ==
    /\ pp_pc = "done"
    /\ pp_src = <<L_defF, L_defG, L_useF>>
    /\ PpRedeclares("G") /\ "G" \notin PpDirect
    /\ PpRedeclares("F")

\* The names some line of the directives-only output calls at column zero.
PpColumnZero ==
    {n \in {"F", "G"} : \E k \in 1..Len(pp_src) :
        Len(pp_src[k]) >= 2 /\ pp_src[k][1] = n /\ pp_src[k][2] = "("}

\* The function-like macros the directives-only output defines and invokes
\* from indented code only, never at column zero.
PpIndentedOnly ==
    {n \in {"F", "G"} \ PpColumnZero :
        /\ \E k \in 1..Len(pp_src) : IsFnDefine(pp_src[k]) /\ pp_src[k][3] = n
        /\ \E k \in 1..Len(pp_src) :
             /\ pp_src[k][1] = "sp" /\ PpCalls(pp_src[k], n)}

\* The forward declarations are those of the hidden definitions the root
\* calls directly, and each comes with a re-declaration.
PpForwardExactlyDirect ==
    \A d \in PpHidden :
        /\ PpForwardDeclares(d[1]) <=> d[1] \in PpDirect
        /\ PpForwardDeclares(d[1]) => PpRedeclares(d[1])

\* C5, as amended: for a function-like macro invoked only from indented
\* code, the output keeps the literal call in the code lines and the block
\* holds a forward declaration and a re-declaration of it; the re-declaration
\* carries the parameter/body text of the definition as the real pass left
\* it, which is the original text whenever the body invokes no macro of the
\* expand-set. Forward declarations are emitted exactly for the late
\* definitions the root calls directly, each next to a re-declaration.
C5_PreservedCallAndDeclarations ==
    pp_pc = "done" =>
        /\ PpForwardExactlyDirect
        /\ \A n \in PpIndentedOnly :
             /\ \E line \in PpCode : PpCalls(line, n)
             /\ PpForwardDeclares(n)
             /\ \E d \in PpHidden : d[1] = n /\ PragmaDefine(n, d[2]) \in PpBlock
             /\ \A k \in 1..Len(pp_src) :
                  (/\ IsFnDefine(pp_src[k]) /\ pp_src[k][3] = n
                   /\ \A c \in PpColumnZero : ~PpCalls(Tail(Tail(Tail(pp_src[k]))), c))
                  => PragmaDefine(n, SubSeq(pp_src[k], 5, Len(pp_src[k]))) \in PpBlock

\* C5, as stated: for a function-like macro invoked only from indented code,
\* the output keeps the literal call, and the block holds a forward
\* declaration and a re-declaration with the original parameter/body text of
\* every definition of it; forward declarations are emitted exactly for the
\* late definitions the root calls directly, each next to a re-declaration.
C5_RedeclaredWithOriginalText ==
    pp_pc = "done" =>
        /\ PpForwardExactlyDirect
        /\ \A n \in PpIndentedOnly :
             /\ \E line \in PpCode : PpCalls(line, n)
             /\ PpForwardDeclares(n)
             /\ \A k \in 1..Len(pp_src) :
                  (IsFnDefine(pp_src[k]) /\ pp_src[k][3] = n)
                  => PragmaDefine(n, SubSeq(pp_src[k], 5, Len(pp_src[k]))) \in PpBlock

\* "#define F() G()" used only as "  x = F();": the call is kept, and the
\* block re-declares F with its text and declares it forward.
C5_Witness ==
    /\ pp_pc = "done"
    /\ pp_src = <<L_defF, L_useF>>
    /\ L_useF \in PpCode
    /\ PragmaDefine("F", <<")", "sp", "G", "(", ")">>) \in PpBlock
    /\ PpForwardDeclares("F")

\* What C6 says of each state: once classified, every name called at column
\* zero is in expand_macros; its definitions reach the real pass as they
\* were; the real pass's output holds no hidden definition of it; and the
\* block neither re-declares it nor declares it forward.
PpColumnZeroExpanded ==
    /\ pp_pc \notin {"classify", "idle"} => PpColumnZero \subseteq expand_macros
    /\ pp_pc = "cpp" =>
         \A k \in 1..Len(pp_src) :
             (IsFnDefine(pp_src[k]) /\ pp_src[k][3] \in PpColumnZero)
             => /\ pp_src[k] \in Range(pp_source)
                /\ \A j \in 1..Len(pp_source) :
                     IsLateDefineLine(pp_source[j]) => LateName(pp_source[j]) # pp_src[k][3]
    /\ PpPassed => \A d \in PpHidden : d[1] \notin PpColumnZero
    /\ pp_pc = "done" =>
         \A n \in PpColumnZero : ~PpRedeclares(n) /\ ~PpForwardDeclares(n)

\* C6: a macro called at column zero in the directives-only output is put
\* in the expand-set, its definition stays visible to the real pass, it
\* never appears in the late-definition block, even when it is also called
\* from indented code, and the expand-set never changes once computed.
C6_ColumnZeroMacroExpanded ==
    /\ []PpColumnZeroExpanded
    /\ [][pp_pc # "classify" => expand_macros' = expand_macros]_vars

\* F is defined, called at column zero and called from indented code, and
\* the text has been returned.
C6_Witness ==
    /\ pp_pc = "done"
    /\ pp_src = <<L_defF, L_col0F, L_useF>>
    /\ PpColumnZero = {"F"}
    /\ PpBlock = {}

\* C9: the work-list loop ends, whatever the graph (self-loops, mutually
\* recursive bodies, duplicate edges); no name has its successors pushed
\* twice; and when it has ended used_anywhere is the set of nodes reachable
\* from the root by zero or more edges.
C9_WorklistTerminatesWithReachableSet ==
    /\ <>(pp_pc = "done")
    /\ [](\A i, j \in 1..Len(pp_popped) : pp_popped[i] = pp_popped[j] => i = j)
    /\ [](pp_pc = "done" => used_anywhere = PpReachable)

\* The loop has ended on two hidden macros that call each other, called
\* twice from the code.
C9_Witness ==
    /\ pp_pc = "done"
    /\ pp_src = <<L_defF, L_defG, L_useF, L_useF>>
    /\ used_anywhere = {"", "F", "G"}
    /\ GraphGet(graph, "F") = <<"F", "G">>
    /\ GraphGet(graph, "G") = <<"G", "F">>
    /\ GraphGet(graph, "") = <<"F", "F">>

====
